---- MODULE Spec2Model ----
(***************************************************************************)
(* A model of screener/universe_builder.py: the retrying table fetch       *)
(* (fetch_csv), symbol normalisation (to_yahoo_symbol), symbol extraction  *)
(* (extract_symbols), the market-cap top-up (ensure_min_count) and the     *)
(* per-bucket run (build_bucket, main).                                    *)
(*                                                                         *)
(* Python strings are sequences of one-character strings.  An optional     *)
(* value is a sequence of length 0 (None / NaN) or 1.                      *)
(***************************************************************************)
EXTENDS Integers, Sequences, FiniteSets, TLC

VARIABLES
  entry,      \* the function the modelled call enters through
  pc,         \* control position
  sym,        \* to_yahoo_symbol: the argument of the first call
  norm1,      \* to_yahoo_symbol(sym)
  norm2,      \* to_yahoo_symbol(to_yahoo_symbol(sym))
  ctx,        \* fetch_csv: the caller ("call", "bucket", "reference")
  retries,    \* fetch_csv: the retry budget
  attempt,    \* fetch_csv: the loop variable, 0 before the first iteration
  sleeps,     \* fetch_csv: the number of time.sleep calls made
  last_err,   \* fetch_csv: last_err, None or the last exception caught
  trace,      \* fetch_csv: the exceptions caught so far, in order
  resp,       \* fetch_csv: what the latest attempt received
  df,         \* the value fetch_csv returned to its caller: None or a table
  exc,        \* the exception that left the entry function, if any
  bucket,     \* main: index into TARGETS of the bucket in progress
  min_count,  \* build_bucket / ensure_min_count: min_count
  syms,       \* the list extract_symbols returned (ensure_min_count's argument)
  symbols,    \* ensure_min_count: the deduplicated list, later the result
  remaining,  \* ensure_min_count: remaining
  idx,        \* ensure_min_count: position of the lookup loop in remaining
  caps,       \* ensure_min_count: caps
  provider,   \* what the market-data provider answered, per symbol looked up
  failed,     \* symbols whose lookup raised inside the try block
  files       \* the output directory: per bucket, None or the list written

normVars == <<sym, norm1, norm2>>

fetchVars == <<ctx, retries, attempt, sleeps, last_err, trace, resp>>

topupVars == <<symbols, remaining, idx, caps, provider, failed>>

vars == <<entry, pc, sym, norm1, norm2, ctx, retries, attempt, sleeps, last_err,
          trace, resp, df, exc, bucket, min_count, syms, symbols, remaining, idx,
          caps, provider, failed, files>>

(***************************************************************************)
(* Bounds of the model.                                                    *)
(***************************************************************************)
MaxLen == 5

(***************************************************************************)
(* Strings.                                                                *)
(***************************************************************************)
Whitespace == {" "}

Alphabet == {" ", ".", "n", "s", "N", "S", "a"}

\* The strings of at most n characters.
StringsUpTo(n) == UNION {[1..k -> Alphabet] : k \in 0..n}

SetMin(S) == CHOOSE x \in S : \A y \in S : x <= y

SetMax(S) == CHOOSE x \in S : \A y \in S : x >= y

\* str.strip(): drops the leading and the trailing whitespace.
Strip(s) ==
  LET keep == {i \in 1..Len(s) : s[i] \notin Whitespace}
  IN  IF keep = {} THEN <<>> ELSE SubSeq(s, SetMin(keep), SetMax(keep))

UpperChar(c) ==
  CASE c = "a" -> "A"
    [] c = "b" -> "B"
    [] c = "c" -> "C"
    [] c = "n" -> "N"
    [] c = "s" -> "S"
    [] OTHER -> c

\* str.upper()
Upper(s) == [i \in 1..Len(s) |-> UpperChar(s[i])]

\* str.endswith(suffix)
EndsWith(s, suffix) ==
  /\ Len(s) >= Len(suffix)
  /\ SubSeq(s, Len(s) - Len(suffix) + 1, Len(s)) = suffix

\* The exchange suffix ".NS".
NS == <<".", "N", "S">>

\* A mutant of to_yahoo_symbol: the suffix is appended without the endswith test.
to_yahoo_symbol_always_appends(x) == Upper(Strip(x)) \o NS

\* to_yahoo_symbol(sym), lines 46-50.
to_yahoo_symbol(x) ==
  LET s == Upper(Strip(x))
  IN  IF ~EndsWith(s, NS) THEN s \o NS ELSE s

(***************************************************************************)
(* Tables.  A table (DataFrame) is a sequence of columns; a column has a   *)
(* name and its cells, and every column of a table has the same number of  *)
(* cells.  A cell is NaN, a string, or an integer held with its decimal    *)
(* digits.  As pd.read_csv builds them, a column holds strings and NaN     *)
(* (dtype object) or integers and NaN (a numeric dtype).                   *)
(***************************************************************************)
NaN == [kind |-> "nan", str |-> <<>>]

StrCell(s) == [kind |-> "str", str |-> s]

IntCell(digits) == [kind |-> "int", str |-> digits]

Column(name, cells) == [name |-> name, cells |-> cells]

NumRows(t) == IF Len(t) = 0 THEN 0 ELSE Len(t[1].cells)

\* DataFrame.empty
IsEmpty(t) == Len(t) = 0 \/ NumRows(t) = 0

\* The dtype test of line 57: a read_csv column is of dtype object when it
\* holds a string, or no row at all.
IsObject(col) ==
  \/ Len(col.cells) = 0
  \/ \E i \in 1..Len(col.cells) : col.cells[i].kind = "str"

\* Series.dropna(): the cells that are not NaN, in order.
RECURSIVE DropNa(_)
DropNa(cells) ==
  IF cells = <<>> THEN <<>>
  ELSE IF Head(cells).kind = "nan" THEN DropNa(Tail(cells))
       ELSE <<Head(cells)>> \o DropNa(Tail(cells))

\* Series.astype(str) on the cells dropna kept: a string is itself; an
\* integer reads as its digits, and as a float ("7.0") when the column held a
\* NaN, since the column is then of dtype float64.
AsStr(col, cell) ==
  IF cell.kind = "int" /\ (\E i \in 1..Len(col.cells) : col.cells[i].kind = "nan")
  THEN cell.str \o <<".", "0">>
  ELSE cell.str

\* The comprehension of lines 55 and 60.
ColumnSymbols(col) ==
  LET kept == DropNa(col.cells)
  IN  [i \in 1..Len(kept) |-> to_yahoo_symbol(AsStr(col, kept[i]))]

\* The preference list of line 53.
PreferredColumns == <<"Symbol", "SYMBOL", "symbol", "Ticker", "ticker">>

ShortLen == 8

HasColumn(t, name) == \E i \in 1..Len(t) : t[i].name = name

ColumnNamed(t, name) == t[CHOOSE i \in 1..Len(t) : t[i].name = name]

\* df[col].str.len().median() < 8, line 59.  The lengths are those of the
\* string cells (str.len() is NaN elsewhere and median skips NaN); the median
\* of no value is NaN, and NaN < 8 is False.  A column on which .str raises is
\* skipped by the except clause, which selects nothing either.
MedianBelow(col, limit) ==
  LET cells == col.cells
      strs  == {i \in 1..Len(cells) : cells[i].kind = "str"}
      n     == Cardinality(strs)
      len(i) == Len(cells[i].str)
      \* the length at rank k (1 the smallest) among the string cells
      ranked(k) == CHOOSE v \in {len(i) : i \in strs} :
                     /\ Cardinality({i \in strs : len(i) < v}) < k
                     /\ Cardinality({i \in strs : len(i) <= v}) >= k
  IN  IF n = 0 THEN FALSE
      ELSE IF n % 2 = 1 THEN ranked((n + 1) \div 2) < limit
      ELSE ranked(n \div 2) + ranked(n \div 2 + 1) < 2 * limit

Preferred(t) == {k \in 1..Len(PreferredColumns) : HasColumn(t, PreferredColumns[k])}

Heuristic(t) == {i \in 1..Len(t) : IsObject(t[i]) /\ MedianBelow(t[i], ShortLen)}

\* Whether extract_symbols finds a column (it raises ValueError otherwise).
HasSymbolColumn(t) == Preferred(t) # {} \/ Heuristic(t) # {}

\* The column extract_symbols reads: the first name of the preference list the
\* table has, else the first short-string column from the left.
SelectedColumn(t) ==
  IF Preferred(t) # {}
  THEN ColumnNamed(t, PreferredColumns[SetMin(Preferred(t))])
  ELSE t[SetMin(Heuristic(t))]

\* extract_symbols(df) where it returns, lines 52-63.
extract_symbols(t) == ColumnSymbols(SelectedColumn(t))

(***************************************************************************)
(* Values shared by the operations.                                        *)
(***************************************************************************)
None == <<>>

Some(x) == <<x>>

\* The sequences over S of at most n elements.
SeqsUpTo(S, n) == UNION {[1..k -> S] : k \in 0..n}

\* seq[:n] for n >= 0
Take(seq, n) == SubSeq(seq, 1, IF n < Len(seq) THEN n ELSE Len(seq))

Occurs(x, seq) == \E i \in 1..Len(seq) : seq[i] = x

\* list(dict.fromkeys(seq)), line 66: each value once, at its first occurrence.
RECURSIVE Dedup(_)
Dedup(seq) ==
  IF seq = <<>> THEN <<>>
  ELSE LET front == SubSeq(seq, 1, Len(seq) - 1)
           last  == seq[Len(seq)]
       IN  IF Occurs(last, front) THEN Dedup(front) ELSE Append(Dedup(front), last)

\* [s for s in n500_syms if s not in symbols], line 73.
RECURSIVE Complement(_, _)
Complement(seq, base) ==
  IF seq = <<>> THEN <<>>
  ELSE IF Occurs(Head(seq), base) THEN Complement(Tail(seq), base)
       ELSE <<Head(seq)>> \o Complement(Tail(seq), base)

(***************************************************************************)
(* Bounds on what the remote sources and the provider may answer.          *)
(***************************************************************************)
MaxRetries == 3

MaxRows == 3

MainRows == 2

MaxMin == 3

MainMin == 3

MaxCap == 2

MaxBase == 2

\* The raw cells a served symbol column may hold.
AllCells == {StrCell(<<"a">>), StrCell(<<"A">>), StrCell(<<"b">>), StrCell(<<"c">>)}

MainCells == {StrCell(<<"a">>), StrCell(<<"b">>)}

\* The tables a source may serve: a header with no row, a table with no
\* ticker-like column, and tables with a Symbol column of at most `rows` cells.
TablesOver(cells, rows) ==
  {<<Column("Symbol", <<>>)>>, <<Column("Weight", <<IntCell(<<"7">>)>>)>>}
    \cup {<<Column("Symbol", c)>> : c \in SeqsUpTo(cells, rows) \ {<<>>}}

AllTables == TablesOver(AllCells, MaxRows)

MainTables == TablesOver(MainCells, MainRows)

\* What the provider may hold for a symbol: fast_info.market_cap, whether
\* reading Ticker.info raises, and info["marketCap"].
Entries ==
  {e \in [market_cap : {None, Some(MaxCap)},
          info_raises : BOOLEAN,
          marketCap : {None} \cup {Some(c) : c \in 0..MaxCap}] :
     e.info_raises => e.marketCap = None}

(***************************************************************************)
(* fetch_csv, lines 26-44.                                                 *)
(***************************************************************************)
DefaultRetries == 3

NoResponse == [kind |-> "none", table |-> <<>>]

Parsed(t) == [kind |-> "table", table |-> t]

\* What an attempt can receive: a transport or status error, a body read_csv
\* cannot parse, or a parsed table (with or without rows).
ResponsesOver(tables) ==
  {[kind |-> "http", table |-> <<>>], [kind |-> "parse", table |-> <<>>]}
    \cup {Parsed(t) : t \in tables}

AllResponses == ResponsesOver(AllTables)

MainResponses == ResponsesOver(MainTables)

\* A run of main is modelled with fewer served tables than a single call.
Responses == IF entry = "main" THEN MainResponses ELSE AllResponses

\* Whether the try block of lines 30-38 reaches `return df`.
Succeeds(r) == r.kind = "table" /\ ~IsEmpty(r.table)

\* The exception the try block raises otherwise.
ErrorOf(r) ==
  CASE r.kind = "http" -> "HTTPError"
    [] r.kind = "parse" -> "ParserError"
    [] OTHER -> "ValueError"

\* A mutant of MoreAttempts: the last permitted attempt is taken for an earlier one.
MoreAttempts_off_by_one(a, r) == a <= r

\* attempt < retries, line 41.
MoreAttempts(a, r) == a < r

\* Whether range(1, retries + 1) holds a value after `a`, line 28.
InRange(a, r) == a + 1 <= r

\* The call fetch_csv(url) with the default retries: a fresh frame.
CallFetch(caller) ==
  /\ ctx' = caller
  /\ retries' = DefaultRetries
  /\ attempt' = 0
  /\ sleeps' = 0
  /\ last_err' = None
  /\ trace' = <<>>
  /\ resp' = NoResponse
  /\ pc' = "fetch"

\* Where control goes when fetch_csv returns.
AfterFetch ==
  CASE ctx = "bucket" -> "extract"
    [] ctx = "reference" -> "ref_extract"
    [] OTHER -> "returned"

\* fetch_csv returns `value`; the frame of a nested call is dropped.
FetchReturns(value, r) ==
  /\ df' = value
  /\ pc' = AfterFetch
  /\ IF ctx = "call"
     THEN /\ attempt' = IF r = NoResponse THEN attempt ELSE attempt + 1
          /\ resp' = r
          /\ UNCHANGED <<ctx, retries, sleeps, last_err, trace>>
     ELSE /\ attempt' = 0
          /\ resp' = NoResponse
          /\ sleeps' = 0
          /\ last_err' = None
          /\ trace' = <<>>
          /\ UNCHANGED <<ctx, retries>>
  /\ UNCHANGED <<entry, normVars, exc, bucket, min_count, syms, topupVars, files>>

\* One iteration whose try block returns the table, lines 28-38.
fetch_ok ==
  /\ pc = "fetch"
  /\ InRange(attempt, retries)
  /\ \E r \in Responses :
       /\ Succeeds(r)
       /\ FetchReturns(Some(r.table), r)

\* One iteration whose try block raises, lines 28-44: sleep and go on, or
\* raise RuntimeError from the exception caught.
fetch_fail ==
  /\ pc = "fetch"
  /\ InRange(attempt, retries)
  /\ \E r \in Responses :
       /\ ~Succeeds(r)
       /\ resp' = r
       /\ attempt' = attempt + 1
       /\ last_err' = Some(ErrorOf(r))
       /\ trace' = Append(trace, ErrorOf(r))
       /\ IF MoreAttempts(attempt + 1, retries)
          THEN /\ sleeps' = sleeps + 1
               /\ UNCHANGED <<pc, exc>>
          ELSE /\ pc' = "raised"
               /\ exc' = Some([type |-> "RuntimeError", cause |-> Some(ErrorOf(r)),
                               from |-> "fetch_csv"])
               /\ UNCHANGED sleeps
  /\ UNCHANGED <<entry, normVars, ctx, retries, df, bucket, min_count, syms,
                 topupVars, files>>

\* The for loop ends without having returned or raised: the function falls
\* off its end and returns None.
fetch_exhausted ==
  /\ pc = "fetch"
  /\ ~InRange(attempt, retries)
  /\ FetchReturns(None, NoResponse)

(***************************************************************************)
(* ensure_min_count, lines 65-90.                                          *)
(***************************************************************************)
\* t.fast_info as getattr sees it: the attributes it has, by name.
FastInfo(e) == [a \in {"market_cap"} |-> e.market_cap]

\* getattr(obj, name, default)
Getattr(obj, name, default) == IF name \in DOMAIN obj THEN obj[name] ELSE default

\* The attribute name line 79 reads.
CapAttribute == "market _cap"

\* Python truthiness of a capitalization: None and 0 are false.
Truthy(cap) == cap # None /\ cap[1] # 0

\* The try block of lines 78-83 for a symbol the provider answers with `e`:
\* whether it raised, and the cap it appends (None: nothing is appended).
LookupCap(e) ==
  LET primary == Getattr(FastInfo(e), CapAttribute, None)
  IN  IF primary # None
      THEN [raised |-> FALSE, cap |-> IF Truthy(primary) THEN primary ELSE None]
      ELSE IF e.info_raises
           THEN [raised |-> TRUE, cap |-> None]
           ELSE [raised |-> FALSE,
                 cap |-> IF Truthy(e.marketCap) THEN e.marketCap ELSE None]

\* caps.sort(key=lambda x: x[1], reverse=True), line 87: descending by cap,
\* pairs of equal cap keeping their order (the sort is stable).
RECURSIVE InsertDesc(_, _)
InsertDesc(x, sorted) ==
  IF sorted = <<>> THEN <<x>>
  ELSE IF Head(sorted).cap >= x.cap THEN <<Head(sorted)>> \o InsertDesc(x, Tail(sorted))
       ELSE <<x>> \o sorted

RECURSIVE SortDesc(_)
SortDesc(seq) ==
  IF seq = <<>> THEN <<>>
  ELSE InsertDesc(seq[Len(seq)], SortDesc(SubSeq(seq, 1, Len(seq) - 1)))

SymbolsOf(pairs) == [i \in 1..Len(pairs) |-> pairs[i].sym]

\* Where control goes when ensure_min_count returns.
AfterEnsure == IF entry = "main" THEN "write" ELSE "returned"

\* Lines 66-68: the list already has min_count symbols and is returned.
ensure_enough ==
  /\ pc = "ensure"
  /\ Len(Dedup(syms)) >= min_count
  /\ symbols' = Dedup(syms)
  /\ pc' = AfterEnsure
  /\ UNCHANGED <<entry, normVars, fetchVars, df, exc, bucket, min_count, syms,
                 remaining, idx, caps, provider, failed, files>>

\* Lines 66-71: the list is short and the reference universe is fetched.
ensure_topup ==
  /\ pc = "ensure"
  /\ Len(Dedup(syms)) < min_count
  /\ symbols' = Dedup(syms)
  /\ CallFetch("reference")
  /\ UNCHANGED <<entry, normVars, df, exc, bucket, min_count, syms,
                 remaining, idx, caps, provider, failed, files>>

\* Lines 72-75: the reference symbols not in the list; extract_symbols may raise.
ref_extract ==
  /\ pc = "ref_extract"
  /\ IF HasSymbolColumn(df[1])
     THEN /\ remaining' = Complement(extract_symbols(df[1]), symbols)
          /\ caps' = <<>>
          /\ idx' = 1
          /\ pc' = "lookup"
          /\ UNCHANGED exc
     ELSE /\ pc' = "raised"
          /\ exc' = Some([type |-> "ValueError", cause |-> None,
                          from |-> "extract_symbols"])
          /\ UNCHANGED <<remaining, caps, idx>>
  /\ UNCHANGED <<entry, normVars, fetchVars, df, bucket, min_count, syms,
                 symbols, provider, failed, files>>

\* Lines 76-85: one iteration of the lookup loop.  The provider answers the
\* same for a symbol it was already asked about in this call.
lookup ==
  /\ pc = "lookup"
  /\ idx <= Len(remaining)
  /\ LET s == remaining[idx]
     IN  \E e \in Entries :
           /\ s \in DOMAIN provider => e = provider[s]
           /\ provider' = (s :> e) @@ provider
           /\ failed' = IF LookupCap(e).raised THEN failed \cup {s} ELSE failed
           /\ caps' = IF LookupCap(e).cap # None
                      THEN Append(caps, [sym |-> s, cap |-> LookupCap(e).cap[1]])
                      ELSE caps
  /\ idx' = idx + 1
  /\ UNCHANGED <<entry, pc, normVars, fetchVars, df, exc, bucket, min_count, syms,
                 symbols, remaining, files>>

\* Lines 87-90: rank, take the first `need` and return the extended list.
ensure_extend ==
  /\ pc = "lookup"
  /\ idx > Len(remaining)
  /\ caps' = SortDesc(caps)
  /\ symbols' = symbols \o Take(SymbolsOf(SortDesc(caps)), min_count - Len(symbols))
  /\ pc' = AfterEnsure
  /\ UNCHANGED <<entry, normVars, fetchVars, df, exc, bucket, min_count, syms,
                 remaining, idx, provider, failed, files>>

(***************************************************************************)
(* extract_symbols as build_bucket calls it (line 95), or called alone.    *)
(***************************************************************************)
extract ==
  /\ pc = "extract"
  /\ IF HasSymbolColumn(df[1])
     THEN /\ syms' = extract_symbols(df[1])
          /\ pc' = IF entry = "extract_symbols" THEN "returned" ELSE "ensure"
          /\ UNCHANGED exc
     ELSE /\ pc' = "raised"
          /\ exc' = Some([type |-> "ValueError", cause |-> None,
                          from |-> "extract_symbols"])
          /\ UNCHANGED syms
  /\ UNCHANGED <<entry, normVars, fetchVars, df, bucket, min_count, topupVars, files>>

(***************************************************************************)
(* build_bucket and main, lines 92-118.                                    *)
(***************************************************************************)
\* TARGETS in its insertion order, line 20.
TARGETS ==
  <<[bucket |-> "largecap", file |-> "largecap.csv"],
    [bucket |-> "midcap", file |-> "midcap.csv"],
    [bucket |-> "smallcap", file |-> "smallcap.csv"]>>

Files == {TARGETS[i].file : i \in 1..Len(TARGETS)}

\* Lines 117-118, 93-94: the loop takes the next bucket and build_bucket
\* fetches its table.
build_bucket ==
  /\ pc = "main"
  /\ bucket <= Len(TARGETS)
  /\ CallFetch("bucket")
  /\ UNCHANGED <<entry, normVars, df, exc, bucket, min_count, syms, topupVars, files>>

\* A mutant of Written: the list extract_symbols returned is written, not the
\* list ensure_min_count returned.
Written_before_topup(assembled, extracted) == extracted

\* The list line 100 writes: syms after line 96 rebinds it.
Written(assembled, extracted) == assembled

\* Lines 98-102: the file is written in full; build_bucket returns, its
\* locals go, and the loop of main moves on.  (A failure of the file system
\* in makedirs or to_csv is not modelled.)
write ==
  /\ pc = "write"
  /\ files' = [files EXCEPT ![TARGETS[bucket].file] = Some(Written(symbols, syms))]
  /\ bucket' = bucket + 1
  /\ pc' = IF bucket < Len(TARGETS) THEN "main" ELSE "done"
  /\ df' = None
  /\ syms' = <<>>
  /\ symbols' = <<>>
  /\ remaining' = <<>>
  /\ idx' = 1
  /\ caps' = <<>>
  /\ provider' = <<>>
  /\ failed' = {}
  /\ UNCHANGED <<entry, normVars, fetchVars, exc, min_count>>

(***************************************************************************)
(* Initial states and specifications.                                      *)
(***************************************************************************)
NormIdle == sym = <<>> /\ norm1 = <<>> /\ norm2 = <<>>

FetchIdle ==
  /\ retries = DefaultRetries
  /\ attempt = 0
  /\ sleeps = 0
  /\ last_err = None
  /\ trace = <<>>
  /\ resp = NoResponse

TopupIdle ==
  /\ symbols = <<>>
  /\ remaining = <<>>
  /\ idx = 1
  /\ caps = <<>>
  /\ provider = <<>>
  /\ failed = {}

NoFiles == [f \in Files |-> None]

\* What an earlier run left in the output directory.
OldList == << <<"O", "L", "D", ".", "N", "S">> >>

OldFiles == [f \in Files |-> Some(OldList)]

\* to_yahoo_symbol applied to a string, and again to its own result.
InitNorm ==
  /\ entry = "to_yahoo_symbol"
  /\ pc = "call"
  /\ sym \in StringsUpTo(MaxLen)
  /\ norm1 = <<>>
  /\ norm2 = <<>>
  /\ ctx = "call"
  /\ FetchIdle
  /\ df = None
  /\ exc = None
  /\ bucket = 1
  /\ min_count = 0
  /\ syms = <<>>
  /\ TopupIdle
  /\ files = NoFiles

NormFirst ==
  /\ entry = "to_yahoo_symbol"
  /\ pc = "call"
  /\ norm1' = to_yahoo_symbol(sym)
  /\ pc' = "called"
  /\ UNCHANGED <<entry, sym, norm2, fetchVars, df, exc, bucket, min_count, syms,
                 topupVars, files>>

NormSecond ==
  /\ entry = "to_yahoo_symbol"
  /\ pc = "called"
  /\ norm2' = to_yahoo_symbol(norm1)
  /\ pc' = "returned"
  /\ UNCHANGED <<entry, sym, norm1, fetchVars, df, exc, bucket, min_count, syms,
                 topupVars, files>>

NextNorm == NormFirst \/ NormSecond

SpecNorm == InitNorm /\ [][NextNorm]_vars

\* One call of fetch_csv with any retry budget.
InitFetch ==
  /\ entry = "fetch_csv"
  /\ pc = "fetch"
  /\ NormIdle
  /\ ctx = "call"
  /\ retries \in 0..MaxRetries
  /\ attempt = 0
  /\ sleeps = 0
  /\ last_err = None
  /\ trace = <<>>
  /\ resp = NoResponse
  /\ df = None
  /\ exc = None
  /\ bucket = 1
  /\ min_count = 0
  /\ syms = <<>>
  /\ TopupIdle
  /\ files = NoFiles

NextFetch == fetch_ok \/ fetch_fail \/ fetch_exhausted

SpecFetch == InitFetch /\ [][NextFetch]_vars

\* The cells of the tables extract_symbols is applied to.
LongName == <<"R", "E", "L", "I", "A", "N", "C", "E">>

ExtractCells ==
  {NaN, StrCell(<<>>), StrCell(<<" ">>), StrCell(<<"a">>), StrCell(<<"A">>),
   StrCell(<<" ", "b">>), StrCell(<<"a", ".", "N", "S">>), StrCell(LongName)}

Rows(cell, n) == [i \in 1..n |-> cell]

\* A column that may stand beside the one holding the symbols.
OtherColumns(n) ==
  {Column("Weight", Rows(IntCell(<<"7">>), n)),
   Column("Name", Rows(StrCell(LongName), n)),
   Column("ticker", Rows(StrCell(<<"c">>), n))}

\* The tables of at most `rows` rows extract_symbols is applied to.
ExtractTables(rows) ==
  LET main == {Column(name, cells) : name \in {"Symbol", "Code"},
                                     cells \in SeqsUpTo(ExtractCells, rows) \ {<<>>}}
  IN  {<<m>> : m \in main}
        \cup UNION {{<<m, o>> : o \in OtherColumns(Len(m.cells))} : m \in main}
        \cup UNION {{<<o, m>> : o \in OtherColumns(Len(m.cells))} : m \in main}

\* One call of extract_symbols on a table.
InitExtract ==
  /\ entry = "extract_symbols"
  /\ pc = "extract"
  /\ NormIdle
  /\ ctx = "call"
  /\ FetchIdle
  /\ df \in {Some(t) : t \in ExtractTables(MaxRows)}
  /\ exc = None
  /\ bucket = 1
  /\ min_count = 0
  /\ syms = <<>>
  /\ TopupIdle
  /\ files = NoFiles

NextExtract == extract

SpecExtract == InitExtract /\ [][NextExtract]_vars

\* The normalized symbols the modelled sources serve.
BaseSymbols == {<<"A", ".", "N", "S">>, <<"B", ".", "N", "S">>}

\* One call of ensure_min_count on a list of symbols.
InitTopUp ==
  /\ entry = "ensure_min_count"
  /\ pc = "ensure"
  /\ NormIdle
  /\ ctx = "call"
  /\ FetchIdle
  /\ df = None
  /\ exc = None
  /\ bucket = 1
  /\ min_count \in 0..MaxMin
  /\ syms \in SeqsUpTo(BaseSymbols, MaxBase)
  /\ TopupIdle
  /\ files = NoFiles

NextTopUp ==
  \/ ensure_enough
  \/ ensure_topup
  \/ fetch_ok
  \/ fetch_fail
  \/ ref_extract
  \/ lookup
  \/ ensure_extend

SpecTopUp == InitTopUp /\ [][NextTopUp]_vars

\* A run of main.
Init ==
  /\ entry = "main"
  /\ pc = "main"
  /\ NormIdle
  /\ ctx = "bucket"
  /\ FetchIdle
  /\ df = None
  /\ exc = None
  /\ bucket = 1
  /\ min_count \in 0..MainMin
  /\ syms = <<>>
  /\ TopupIdle
  /\ files \in {NoFiles, OldFiles}

Next ==
  \/ build_bucket
  \/ fetch_ok
  \/ fetch_fail
  \/ extract
  \/ ensure_enough
  \/ ensure_topup
  \/ ref_extract
  \/ lookup
  \/ ensure_extend
  \/ write

Spec == Init /\ [][Next]_vars

(***************************************************************************)
(* The claims.                                                             *)
(***************************************************************************)
\* C1: retry bound of fetch_csv.  With a budget retries >= 1, after k failed
\* attempts the call is still running only if k < retries, and has then slept
\* k times; it returns only on a successful attempt, the (k+1)-th with
\* k < retries, with the table of that attempt and k sleeps behind it; it
\* raises only when `retries` attempts have failed, after exactly `retries`
\* attempts and retries - 1 sleeps.
C1_RetryBound ==
  (entry = "fetch_csv" /\ retries >= 1) =>
    /\ pc \in {"fetch", "returned", "raised"}
    /\ attempt <= retries
    /\ pc = "fetch" =>
         /\ attempt = Len(trace)
         /\ attempt < retries
         /\ sleeps = attempt
    /\ pc = "returned" =>
         /\ Succeeds(resp)
         /\ df = Some(resp.table)
         /\ Len(trace) < retries
         /\ attempt = Len(trace) + 1
         /\ sleeps = Len(trace)
    /\ pc = "raised" =>
         /\ ~Succeeds(resp)
         /\ Len(trace) = retries
         /\ attempt = retries
         /\ sleeps = retries - 1

\* C1 witness: with a budget of 3 the call returned on the third attempt,
\* after two failures and two sleeps.
C1_Witness ==
  /\ entry = "fetch_csv"
  /\ pc = "returned"
  /\ retries = 3
  /\ Len(trace) = 2
  /\ attempt = 3
  /\ sleeps = 2
  /\ df # None

\* C6: fetch_csv never returns an empty success, whatever the retry budget: it
\* returns a table with at least one row, or raises an error chaining the
\* last failure caught; it never returns None.
C6_NeverEmptySuccess ==
  entry = "fetch_csv" =>
    /\ pc \in {"fetch", "returned", "raised"}
    /\ pc = "returned" => (df # None /\ ~IsEmpty(df[1]))
    /\ pc = "raised" =>
         /\ exc # None
         /\ trace # <<>>
         /\ exc[1].cause = Some(trace[Len(trace)])

\* C8: normalisation is idempotent and carries the suffix .NS once.  Applied to
\* its own result to_yahoo_symbol changes nothing; its result ends with .NS,
\* and is the stripped upper-cased input with .NS appended only when that did
\* not already end with it.
C8_Idempotent ==
  entry = "to_yahoo_symbol" =>
    /\ pc \in {"called", "returned"} =>
         /\ EndsWith(norm1, NS)
         /\ LET core == Upper(Strip(sym))
            IN  \/ EndsWith(core, NS) /\ norm1 = core
                \/ ~EndsWith(core, NS) /\ norm1 = core \o NS
    /\ pc = "returned" => norm2 = norm1

\* C8 witness: an input in mixed case with surrounding whitespace that already
\* carries the suffix has been normalised twice.
C8_Witness ==
  /\ entry = "to_yahoo_symbol"
  /\ pc = "returned"
  /\ sym = <<" ", "a", ".", "n", "S">>
  /\ norm2 = <<"A", ".", "N", "S">>

\* The cells of a column that are absent, or empty once coerced and stripped.
Blank(col, cell) == cell.kind = "nan" \/ Strip(AsStr(col, cell)) = <<>>

RECURSIVE NonBlankSymbols(_, _)
NonBlankSymbols(col, cells) ==
  IF cells = <<>> THEN <<>>
  ELSE IF Blank(col, Head(cells)) THEN NonBlankSymbols(col, Tail(cells))
       ELSE <<to_yahoo_symbol(AsStr(col, Head(cells)))>> \o NonBlankSymbols(col, Tail(cells))

\* C5: the list extract_symbols returns holds each normalized symbol of the
\* selected column once, at the place of its first occurrence.
C5_ExtractDedups ==
  (\/ entry = "extract_symbols" /\ pc = "returned"
   \/ entry = "main" /\ pc = "ensure") =>
    syms = Dedup(ColumnSymbols(SelectedColumn(df[1])))

\* C9: a cell of the selected column that is absent or blank gives no symbol:
\* the list extract_symbols returns is made of the other cells alone, so the
\* bare suffix .NS never stands for such a cell.
C9_BlankCellsDropped ==
  (entry = "extract_symbols" /\ pc = "returned") =>
    LET col == SelectedColumn(df[1])
    IN  syms = NonBlankSymbols(col, col.cells)

\* The capitalization ensure_min_count obtained for a symbol it looked up.
RankedCap(s) == LookupCap(provider[s]).cap

Range(seq) == {seq[i] : i \in 1..Len(seq)}

\* The distinct reference symbols outside the base that have a capitalization.
Rankable ==
  {s \in Range(extract_symbols(df[1])) \ Range(Dedup(syms)) :
     s \in DOMAIN provider /\ RankedCap(s) # None}

\* The capitalization the provider holds for a symbol it was asked about: the
\* primary field when present, else the secondary one (a capitalization of 0
\* counts as absent).
CapOf(s) ==
  IF Truthy(provider[s].market_cap) THEN provider[s].market_cap
  ELSE IF Truthy(provider[s].marketCap) THEN provider[s].marketCap
  ELSE None

IntMin(a, b) == IF a < b THEN a ELSE b

IntMax(a, b) == IF a > b THEN a ELSE b

\* C2: the list ensure_min_count returns has
\* max(len(base), min(min_count, len(base) + len(rankable remaining))) symbols.
C2_ResultLength ==
  (entry = "ensure_min_count" /\ pc = "returned") =>
    LET base == Dedup(syms)
    IN  IF Len(base) >= min_count
        THEN Len(symbols) = Len(base)
        ELSE Len(symbols) =
               IntMax(Len(base), IntMin(min_count, Len(base) + Cardinality(Rankable)))

\* C3: when the base is short the result is the base in its order, followed by
\* the first need = min_count - len(base) symbols (all if fewer) of the
\* complement by descending capitalization: the appended part is in rank
\* order and no complement symbol with a larger cap than an appended one is
\* left out.
C3_TopUpShape ==
  (entry = "ensure_min_count" /\ pc = "returned" /\ Len(Dedup(syms)) < min_count) =>
    LET base  == Dedup(syms)
        added == SubSeq(symbols, Len(base) + 1, Len(symbols))
    IN  /\ SubSeq(symbols, 1, Len(base)) = base
        /\ Len(added) = IntMin(min_count - Len(base), Cardinality(Rankable))
        /\ \A i \in 1..Len(added) : added[i] \in Rankable
        /\ \A i, j \in 1..Len(added) :
             i < j => (added[i] # added[j] /\ RankedCap(added[i])[1] >= RankedCap(added[j])[1])
        /\ \A s \in Rankable \ Range(added) :
             \A i \in 1..Len(added) : added[i] \in Rankable => RankedCap(s)[1] <= RankedCap(added[i])[1]

\* C4: the list ensure_min_count returns holds each symbol at most once, and
\* no symbol of the base occurs in the appended part.
C4_NoDuplicates ==
  (entry = "ensure_min_count" /\ pc = "returned") =>
    LET base  == Dedup(syms)
        added == SubSeq(symbols, Len(base) + 1, Len(symbols))
    IN  /\ \A i, j \in 1..Len(symbols) : i # j => symbols[i] # symbols[j]
        /\ \A i \in 1..Len(added) : added[i] \notin Range(base)

\* C10: a complement symbol is ranked exactly when its lookup did not fail and
\* a capitalization is present in the primary field or, the primary being
\* absent, in the secondary lookup; it is ranked with the primary value when
\* present, else with the secondary one; a failed lookup excludes only its own
\* symbol, and every symbol of the complement is looked up.
C10_BestEffortLookup ==
  (entry = "ensure_min_count" /\ pc \in {"lookup", "returned"}) =>
    LET done == IF pc = "returned" THEN Len(remaining) ELSE idx - 1
    IN  /\ pc = "returned" => done = Len(remaining)
        /\ \A i \in 1..done :
             LET s == remaining[i]
             IN  /\ s \in DOMAIN provider
                 /\ (\E k \in 1..Len(caps) : caps[k].sym = s)
                      <=> (s \notin failed /\ CapOf(s) # None)
                 /\ \A k \in 1..Len(caps) :
                      caps[k].sym = s => Some(caps[k].cap) = CapOf(s)

\* Write-all-or-nothing per bucket over a run of main.  The files of the
\* buckets before the one in progress are written and those of the bucket in
\* progress and after it are untouched, so the buckets are written in the
\* order of TARGETS; a file changes only by the write of the bucket in progress,
\* which stores the list ensure_min_count returned (the deduplicated base,
\* extended by the ranked top-up when the base was short) and leaves the other
\* files alone; once an exception has left main nothing more happens; and an
\* exception has left main exactly when a fetch or an extraction failed.
Untouched(f) == files[f] \in {None, Some(OldList)}

C7_Safe ==
  entry = "main" =>
    /\ bucket \in 1..(Len(TARGETS) + 1)
    /\ \A j \in 1..Len(TARGETS) :
         IF j < bucket THEN ~Untouched(TARGETS[j].file) ELSE Untouched(TARGETS[j].file)
    /\ pc = "done" <=> bucket = Len(TARGETS) + 1
    /\ pc = "raised" <=> exc # None
    /\ pc = "write" =>
         /\ symbols = Dedup(syms) \o SubSeq(symbols, Len(Dedup(syms)) + 1, Len(symbols))
         /\ Len(symbols) > Len(Dedup(syms)) => Len(Dedup(syms)) < min_count

C7_Step ==
  entry = "main" =>
    /\ pc = "raised" => UNCHANGED vars
    /\ files' # files =>
         /\ pc = "write"
         /\ files' = [files EXCEPT ![TARGETS[bucket].file] = Some(symbols)]
         /\ bucket' = bucket + 1
    /\ bucket' # bucket => files' # files

\* C7: over a run of main the buckets are written in the order of TARGETS, each
\* file only by the write that follows the assembly of its bucket's list, and
\* a failed fetch or extraction writes nothing, ends the run and leaves the
\* files written before it as they are.
C7_WriteAllOrNothing == []C7_Safe /\ [][C7_Step]_vars

\* C7 witness: the reference-universe fetch of the second bucket failed after
\* the first bucket was written; the second and third files are untouched.
C7_Witness ==
  /\ entry = "main"
  /\ pc = "raised"
  /\ bucket = 2
  /\ ctx = "reference"
  /\ exc[1].from = "fetch_csv"
  /\ ~Untouched("largecap.csv")
  /\ Len(files["largecap.csv"][1]) = 2
  /\ Untouched("midcap.csv")
  /\ Untouched("smallcap.csv")

====
